---- MODULE Spec2Model ----
(***************************************************************************)
(* GCPUp.Execute (commands/gcp_up.go) as a state machine.  One invocation  *)
(* walks the checkpointed "up" pipeline for GCP; every collaborator call   *)
(* (state store, provider, key pair updater, applier, outputer, deployer,  *)
(* cloud-config generator, director client) either succeeds or fails.      *)
(* The command is re-invoked with the state last written to the store.     *)
(***************************************************************************)
EXTENDS Integers, Sequences, FiniteSets, TLC

VARIABLES
    store,       \* the state document on disk (what stateStore.Set last wrote)
    pc,          \* position of the running Execute, "idle" between invocations
    state,       \* Execute's local `state` (a by-value copy of the loaded state)
    upConfig,    \* Execute's `upConfig` argument
    input,       \* the state Execute was invoked with
    locals,      \* Execute's other locals: terraform outputs, deploy input
    log,         \* the collaborator calls of the running invocation, in order
    err,         \* what Execute returns: "" is nil
    runs,        \* number of invocations started
    prev,        \* the last invocation that got as far as the state store, and
                 \* the blobs the applier has returned (applied) and the store kept (saved)
    applyMemo,   \* terraformApplier.Apply as a function of the prior TFState
    deployMemo,  \* boshDeployer.Deploy as a function of the prior bosh-init state
    rival,       \* a second "up" process on the same state directory
    query        \* a state query command: its input, position and output

vars == <<store, pc, state, upConfig, input, locals, log, err, runs, prev,
          applyMemo, deployMemo, rival, query>>

\* ---------------------------------------------------------------- bounds
MaxRuns == 2

\* ---------------------------------------------------------------- values
Unset == "?"

EmptyGCP == [ServiceAccountKey |-> "", ProjectID |-> "", Zone |-> "", Region |-> ""]

EmptyKeyPair == [PrivateKey |-> "", PublicKey |-> ""]

EmptyBOSH ==
    [DirectorName |-> "", DirectorAddress |-> "", DirectorUsername |-> "",
     DirectorPassword |-> "", DirectorSSLCA |-> "", DirectorSSLCertificate |-> "",
     DirectorSSLPrivateKey |-> "", Credentials |-> "", State |-> "", Manifest |-> ""]

EmptyState ==
    [IAAS |-> "", EnvID |-> "", GCP |-> EmptyGCP, KeyPair |-> EmptyKeyPair,
     TFState |-> "", BOSH |-> EmptyBOSH, NoDirector |-> FALSE,
     Stack |-> [Name |-> ""], Jumpbox |-> [Enabled |-> FALSE, URL |-> ""]]

EmptyUpConfig == [ServiceAccountKeyPath |-> "", ProjectID |-> "", Zone |-> "", Region |-> ""]

\* the up configurations the command line can carry
UpConfigs ==
    [ServiceAccountKeyPath : {"", "key.json"}, ProjectID : {"", "proj"},
     Zone : {"", "us-west1-a"}, Region : {"", "us-west1", "us-west2"}]

\* content of the service account key file
KeyFileContent == "{sak}"

\* a key pair registered before the first invocation, and the one Update makes
OldKeyPair == [PrivateKey |-> "priv0", PublicKey |-> "pub0"]
NewKeyPair == [PrivateKey |-> "priv1", PublicKey |-> "pub1"]

\* state blobs the applier can return (a failed apply may report none)
TFBlobs == {"tf1", "tf2"}
PartialTFBlobs == {"", "tfpart"}

\* what a deployment can return
DeployOutputs ==
    { [BOSHInitState |-> "bs1", BOSHInitManifest |-> "mf1", Credentials |-> "cr1",
       DirectorSSLKeyPair |-> [CA |-> "ca1", Certificate |-> "cert1", PrivateKey |-> "key1"]],
      [BOSHInitState |-> "bs2", BOSHInitManifest |-> "mf2", Credentials |-> "cr2",
       DirectorSSLKeyPair |-> [CA |-> "ca2", Certificate |-> "cert2", PrivateKey |-> "key2"]] }

NoDeployOutput ==
    [BOSHInitState |-> Unset, BOSHInitManifest |-> Unset, Credentials |-> Unset,
     DirectorSSLKeyPair |-> [CA |-> Unset, Certificate |-> Unset, PrivateKey |-> Unset]]

BOSHStates == {"", "bs1", "bs2"}

\* admin credentials from the string generator: fresh ones on every deploy
\* input, the same ones when the same deploy input is built again
GeneratedCredentials(s) ==
    IF s.BOSH.DirectorUsername = "user-1"
    THEN [DirectorUsername |-> "user-2", DirectorPassword |-> "pw-2"]
    ELSE [DirectorUsername |-> "user-1", DirectorPassword |-> "pw-1"]

OutputNames == <<"external_ip", "network_name", "subnetwork_name",
                 "bosh_open_tag_name", "internal_tag_name", "director_address">>

NoDeployInput ==
    [DirectorName |-> "", DirectorUsername |-> "", DirectorPassword |-> "", BOSHInitState |-> ""]

EmptyLocals ==
    [outputs |-> [n \in {} |-> ""], deployInput |-> NoDeployInput, azs |-> <<>>]

\* the rival process and the query command before they start
IdleRival == [pc |-> "idle", state |-> EmptyState]

EmptyMap == [k \in {} |-> ""]

NoInfra == [ok |-> FALSE, outputs |-> EmptyMap]

IdleQuery ==
    [pc |-> "idle", propertyName |-> "", state |-> EmptyState, validateErr |-> "",
     fastFail |-> "", infra |-> NoInfra, calls |-> <<>>, printed |-> <<>>, err |-> ""]

NoPrev ==
    [input |-> EmptyState, upConfig |-> EmptyUpConfig, ok |-> FALSE, ran |-> FALSE,
     applied |-> "", saved |-> ""]

\* ---------------------------------------------------------------- helpers
\* storage.KeyPair.IsEmpty
KeyPairIsEmpty(k) == k = EmptyKeyPair

\* storage.BOSH.IsEmpty
BOSHIsEmpty(b) == b = EmptyBOSH

\* GCPUpConfig.empty
empty(c) ==
    c.ServiceAccountKeyPath = "" /\ c.ProjectID = "" /\ c.Region = "" /\ c.Zone = ""

\* GCPUp.parseUpConfig, after the key file was read and parsed
parseUpConfig(c) ==
    [ServiceAccountKey |-> KeyFileContent, ProjectID |-> c.ProjectID,
     Zone |-> c.Zone, Region |-> c.Region]

\* mutant: the project ID is looked at before the service account key
validateState_Reordered(s) ==
    CASE s.GCP.ProjectID = ""         -> "GCP project ID must be provided"
      [] s.GCP.ServiceAccountKey = "" -> "GCP service account key must be provided"
      [] s.GCP.Region = ""            -> "GCP region must be provided"
      [] s.GCP.Zone = ""              -> "GCP zone must be provided"
      [] OTHER                        -> ""

\* GCPUp.validateState: the error it returns, "" for nil
validateState(s) ==
    CASE s.GCP.ServiceAccountKey = "" -> "GCP service account key must be provided"
      [] s.GCP.ProjectID = ""         -> "GCP project ID must be provided"
      [] s.GCP.Region = ""            -> "GCP region must be provided"
      [] s.GCP.Zone = ""              -> "GCP zone must be provided"
      [] OTHER                        -> ""

\* GCPUp.getAZs: the static region-to-AZ table; a missing key yields nil
AZTable ==
    [r \in {"us-west1", "us-central1", "us-east1", "europe-west1", "asia-east1",
            "asia-northeast1"} |->
        CASE r = "us-west1"        -> <<"us-west1-a", "us-west1-b">>
          [] r = "us-central1"     -> <<"us-central1-a", "us-central1-b", "us-central1-c", "us-central1-f">>
          [] r = "us-east1"        -> <<"us-east1-b", "us-east1-c", "us-east1-d">>
          [] r = "europe-west1"    -> <<"europe-west1-b", "europe-west1-c", "europe-west1-d">>
          [] r = "asia-east1"      -> <<"asia-east1-a", "asia-east1-b", "asia-east1-c">>
          [] r = "asia-northeast1" -> <<"asia-northeast1-a", "asia-northeast1-b", "asia-northeast1-c">>]

getAZs(region) == IF region \in DOMAIN AZTable THEN AZTable[region] ELSE <<>>

\* terraformOutputer.Get: the named output read out of a state blob
OutputOf(tfState, name) == name \o "@" \o tfState

\* boshinit.NewDeployInput: director name from the env id, prior bosh-init
\* state from the state, admin credentials from the string generator
NewDeployInput(s) ==
    [DirectorName |-> "bosh-" \o s.EnvID,
     DirectorUsername |-> GeneratedCredentials(s).DirectorUsername,
     DirectorPassword |-> GeneratedCredentials(s).DirectorPassword,
     BOSHInitState |-> s.BOSH.State]

\* mutant: the director section is rebuilt on every deploy
BOSHAfterDeploy_Regenerated(bosh, deployInput, deployOutput, directorAddress) ==
    [DirectorName |-> deployInput.DirectorName,
     DirectorAddress |-> directorAddress,
     DirectorUsername |-> deployInput.DirectorUsername,
     DirectorPassword |-> deployInput.DirectorPassword,
     DirectorSSLCA |-> deployOutput.DirectorSSLKeyPair.CA,
     DirectorSSLCertificate |-> deployOutput.DirectorSSLKeyPair.Certificate,
     DirectorSSLPrivateKey |-> deployOutput.DirectorSSLKeyPair.PrivateKey,
     Credentials |-> deployOutput.Credentials,
     State |-> deployOutput.BOSHInitState,
     Manifest |-> deployOutput.BOSHInitManifest]

\* mutant: a redeploy clears the director section it finds populated
BOSHAfterDeploy_ClearedOnRedeploy(bosh, deployInput, deployOutput, directorAddress) ==
    IF BOSHIsEmpty(bosh)
    THEN [DirectorName |-> deployInput.DirectorName,
          DirectorAddress |-> directorAddress,
          DirectorUsername |-> deployInput.DirectorUsername,
          DirectorPassword |-> deployInput.DirectorPassword,
          DirectorSSLCA |-> deployOutput.DirectorSSLKeyPair.CA,
          DirectorSSLCertificate |-> deployOutput.DirectorSSLKeyPair.Certificate,
          DirectorSSLPrivateKey |-> deployOutput.DirectorSSLKeyPair.PrivateKey,
          Credentials |-> deployOutput.Credentials,
          State |-> deployOutput.BOSHInitState,
          Manifest |-> deployOutput.BOSHInitManifest]
    ELSE EmptyBOSH

\* the director section after a successful Deploy (gcp_up.go 189-203)
BOSHAfterDeploy(bosh, deployInput, deployOutput, directorAddress) ==
    LET filled ==
          IF BOSHIsEmpty(bosh)
          THEN [DirectorName |-> deployInput.DirectorName,
                DirectorAddress |-> directorAddress,
                DirectorUsername |-> deployInput.DirectorUsername,
                DirectorPassword |-> deployInput.DirectorPassword,
                DirectorSSLCA |-> deployOutput.DirectorSSLKeyPair.CA,
                DirectorSSLCertificate |-> deployOutput.DirectorSSLKeyPair.Certificate,
                DirectorSSLPrivateKey |-> deployOutput.DirectorSSLKeyPair.PrivateKey,
                Credentials |-> deployOutput.Credentials,
                State |-> "", Manifest |-> ""]
          ELSE bosh
    IN  [filled EXCEPT !.State = deployOutput.BOSHInitState,
                       !.Manifest = deployOutput.BOSHInitManifest]

\* one entry of the call log
Call(op, ok, arg, out, st) == [op |-> op, ok |-> ok, arg |-> arg, out |-> out, st |-> st]

Logged(op, ok, arg, out) == Append(log, Call(op, ok, arg, out, EmptyState))

\* Execute returns e
Return(e) == pc' = "done" /\ err' = e

\* ---------------------------------------------------------------- initial state
\* The state document before the first invocation: no infrastructure yet; the
\* env id and the NoDirector mode are set (or not) by the calling command, and
\* a key pair may be left from an earlier environment.
InitStates ==
    { EmptyState,
      [EmptyState EXCEPT !.EnvID = "env-1"],
      [EmptyState EXCEPT !.EnvID = "env-1", !.NoDirector = TRUE],
      [EmptyState EXCEPT !.EnvID = "env-1", !.KeyPair = OldKeyPair] }

Init ==
    /\ store \in InitStates
    /\ pc = "idle"
    /\ state = EmptyState
    /\ upConfig = EmptyUpConfig
    /\ input = EmptyState
    /\ locals = EmptyLocals
    /\ log = <<>>
    /\ err = ""
    /\ runs = 0
    /\ prev = NoPrev
    /\ applyMemo = [t \in TFBlobs \cup PartialTFBlobs |-> Unset]
    /\ deployMemo = [b \in BOSHStates |-> NoDeployOutput]
    /\ rival = IdleRival
    /\ query = IdleQuery

\* ---------------------------------------------------------------- actions
\* main: the command is run with the state loaded from the state directory
Invoke ==
    /\ pc = "idle"
    /\ runs < MaxRuns
    /\ \E c \in UpConfigs : upConfig' = c
    /\ state' = store
    /\ input' = store
    /\ runs' = runs + 1
    /\ pc' = "parse"
    /\ UNCHANGED <<store, locals, log, err, prev, applyMemo, deployMemo, rival, query>>

\* mutant: a non-empty up configuration starts from a fresh state
ParseConfig_FreshState ==
    /\ pc = "parse"
    /\ IF empty(upConfig)
       THEN pc' = "validate" /\ UNCHANGED <<state, err>>
       ELSE IF upConfig.ServiceAccountKeyPath = ""
       THEN Return("GCP service account key must be provided") /\ UNCHANGED state
       ELSE \/ /\ state' = [EmptyState EXCEPT !.IAAS = "gcp", !.GCP = parseUpConfig(upConfig)]
               /\ pc' = "validate"
               /\ UNCHANGED err
            \/ Return("error reading service account key") /\ UNCHANGED state
            \/ Return("error parsing service account key") /\ UNCHANGED state
    /\ UNCHANGED <<store, upConfig, input, locals, log, runs, prev, applyMemo, deployMemo, rival, query>>

\* mutant: fields the configuration leaves empty are kept from the prior state
ParseConfig_Merged ==
    /\ pc = "parse"
    /\ IF empty(upConfig)
       THEN pc' = "validate" /\ UNCHANGED <<state, err>>
       ELSE IF upConfig.ServiceAccountKeyPath = ""
       THEN Return("GCP service account key must be provided") /\ UNCHANGED state
       ELSE \/ /\ state' = [state EXCEPT
                      !.IAAS = "gcp",
                      !.GCP = [ServiceAccountKey |-> KeyFileContent,
                               ProjectID |-> IF upConfig.ProjectID = "" THEN state.GCP.ProjectID
                                             ELSE upConfig.ProjectID,
                               Zone |-> IF upConfig.Zone = "" THEN state.GCP.Zone ELSE upConfig.Zone,
                               Region |-> IF upConfig.Region = "" THEN state.GCP.Region
                                          ELSE upConfig.Region]]
               /\ pc' = "validate"
               /\ UNCHANGED err
            \/ Return("error reading service account key") /\ UNCHANGED state
            \/ Return("error parsing service account key") /\ UNCHANGED state
    /\ UNCHANGED <<store, upConfig, input, locals, log, runs, prev, applyMemo, deployMemo, rival, query>>

\* gcp_up.go 86-94
ParseConfig ==
    /\ pc = "parse"
    /\ IF empty(upConfig)
       THEN pc' = "validate" /\ UNCHANGED <<state, err>>
       ELSE IF upConfig.ServiceAccountKeyPath = ""
       THEN Return("GCP service account key must be provided") /\ UNCHANGED state
       ELSE \/ /\ state' = [state EXCEPT !.IAAS = "gcp", !.GCP = parseUpConfig(upConfig)]
               /\ pc' = "validate"
               /\ UNCHANGED err
            \/ Return("error reading service account key") /\ UNCHANGED state
            \/ Return("error parsing service account key") /\ UNCHANGED state
    /\ UNCHANGED <<store, upConfig, input, locals, log, runs, prev, applyMemo, deployMemo, rival, query>>

\* mutant: the result of validateState is ignored
Validate_Ignored ==
    /\ pc = "validate"
    /\ pc' = "set1"
    /\ UNCHANGED <<store, state, upConfig, input, locals, log, err, runs, prev, applyMemo, deployMemo, rival, query>>

\* gcp_up.go 96-98
Validate ==
    /\ pc = "validate"
    /\ IF validateState(state) # ""
       THEN Return(validateState(state))
       ELSE pc' = "set1" /\ UNCHANGED err
    /\ UNCHANGED <<store, state, upConfig, input, locals, log, runs, prev, applyMemo, deployMemo, rival, query>>

\* u.stateStore.Set(state): writes the document, or fails and leaves it
StoreSet(next) ==
    /\ \/ /\ store' = state
          /\ log' = Append(log, Call("Set", TRUE, pc, "", state))
          /\ pc' = next
          /\ UNCHANGED err
       \/ /\ log' = Append(log, Call("Set", FALSE, pc, "", state))
          /\ Return("stateStore.Set failed")
          /\ UNCHANGED store
    /\ UNCHANGED <<state, upConfig, input, locals, runs, prev, applyMemo, deployMemo, rival, query>>

\* mutant: the error of the call is dropped and the run goes on
PlainCall_Swallowed(op, arg, next) ==
    /\ \/ log' = Logged(op, TRUE, arg, "")
       \/ log' = Logged(op, FALSE, arg, "")
    /\ pc' = next
    /\ UNCHANGED <<store, state, upConfig, input, locals, err, runs, prev, applyMemo, deployMemo, rival, query>>

\* a collaborator call that only succeeds or fails
PlainCall(op, arg, next) ==
    /\ \/ /\ log' = Logged(op, TRUE, arg, "")
          /\ pc' = next
          /\ UNCHANGED err
       \/ /\ log' = Logged(op, FALSE, arg, "")
          /\ Return(op \o " failed")
    /\ UNCHANGED <<store, state, upConfig, input, locals, runs, prev, applyMemo, deployMemo, rival, query>>

\* gcp_up.go 100-102
SetCredentials == pc = "set1" /\ StoreSet("setconfig")

\* gcp_up.go 104-106
SetConfig == pc = "setconfig" /\ PlainCall("SetConfig", state.GCP.ServiceAccountKey, "keypair")

\* mutant: the key pair is regenerated whether or not the state has one
EnsureKeyPair_Always ==
    /\ pc = "keypair"
    /\ \/ /\ state' = [state EXCEPT !.KeyPair = NewKeyPair]
          /\ log' = Logged("Update", TRUE, state.GCP.ProjectID, NewKeyPair.PublicKey)
          /\ pc' = "set2"
          /\ UNCHANGED err
       \/ /\ log' = Logged("Update", FALSE, state.GCP.ProjectID, "")
          /\ Return("Update failed")
          /\ UNCHANGED state
    /\ UNCHANGED <<store, upConfig, input, locals, runs, prev, applyMemo, deployMemo, rival, query>>

\* mutant: the key pair that Update returns is not put into the state
EnsureKeyPair_Dropped ==
    /\ pc = "keypair"
    /\ IF KeyPairIsEmpty(state.KeyPair)
       THEN \/ /\ log' = Logged("Update", TRUE, state.GCP.ProjectID, NewKeyPair.PublicKey)
               /\ pc' = "set2"
               /\ UNCHANGED <<state, err>>
            \/ /\ log' = Logged("Update", FALSE, state.GCP.ProjectID, "")
               /\ Return("Update failed")
               /\ UNCHANGED state
       ELSE pc' = "tempdir" /\ UNCHANGED <<state, log, err>>
    /\ UNCHANGED <<store, upConfig, input, locals, runs, prev, applyMemo, deployMemo, rival, query>>

\* gcp_up.go 108-113
EnsureKeyPair ==
    /\ pc = "keypair"
    /\ IF KeyPairIsEmpty(state.KeyPair)
       THEN \/ /\ state' = [state EXCEPT !.KeyPair = NewKeyPair]
               /\ log' = Logged("Update", TRUE, state.GCP.ProjectID, NewKeyPair.PublicKey)
               /\ pc' = "set2"
               /\ UNCHANGED err
            \/ /\ log' = Logged("Update", FALSE, state.GCP.ProjectID, "")
               /\ Return("Update failed")
               /\ UNCHANGED state
       ELSE pc' = "tempdir" /\ UNCHANGED <<state, log, err>>
    /\ UNCHANGED <<store, upConfig, input, locals, runs, prev, applyMemo, deployMemo, rival, query>>

\* gcp_up.go 114-116
SetKeyPair == pc = "set2" /\ StoreSet("tempdir")

\* gcp_up.go 119-122
TempDir == pc = "tempdir" /\ PlainCall("tempDir", "", "writefile")

\* gcp_up.go 124-128
WriteFile == pc = "writefile" /\ PlainCall("writeFile", state.GCP.ServiceAccountKey, "apply")

\* mutant: a failed apply puts the blob it reports into the state and saves it
Apply_PartialSaved ==
    /\ pc = "apply"
    /\ \/ \E r \in TFBlobs :
            /\ applyMemo[state.TFState] \in {Unset, r}
            /\ applyMemo' = [applyMemo EXCEPT ![state.TFState] = r]
            /\ state' = [state EXCEPT !.TFState = r]
            /\ log' = Logged("Apply", TRUE, state.TFState, r)
            /\ pc' = "set3"
            /\ UNCHANGED <<err, store>>
       \/ \E p \in PartialTFBlobs :
            /\ state' = [state EXCEPT !.TFState = p]
            /\ store' = state'
            /\ log' = Append(Logged("Apply", FALSE, state.TFState, p), Call("Set", TRUE, "", "", state'))
            /\ Return("Apply failed")
            /\ UNCHANGED applyMemo
    /\ UNCHANGED <<upConfig, input, locals, runs, prev, deployMemo, rival, query>>

\* mutant: the applier is run without the stored blob as prior state
Apply_NoPriorState ==
    /\ pc = "apply"
    /\ \/ \E r \in TFBlobs :
            /\ applyMemo[""] \in {Unset, r}
            /\ applyMemo' = [applyMemo EXCEPT ![""] = r]
            /\ state' = [state EXCEPT !.TFState = r]
            /\ log' = Logged("Apply", TRUE, "", r)
            /\ pc' = "set3"
            /\ UNCHANGED err
       \/ \E p \in PartialTFBlobs :
            /\ log' = Logged("Apply", FALSE, "", p)
            /\ Return("Apply failed")
            /\ UNCHANGED <<state, applyMemo>>
    /\ UNCHANGED <<store, upConfig, input, locals, runs, prev, deployMemo, rival, query>>

\* gcp_up.go 130-135
Apply ==
    /\ pc = "apply"
    /\ \/ \E r \in TFBlobs :
            /\ applyMemo[state.TFState] \in {Unset, r}
            /\ applyMemo' = [applyMemo EXCEPT ![state.TFState] = r]
            /\ state' = [state EXCEPT !.TFState = r]
            /\ log' = Logged("Apply", TRUE, state.TFState, r)
            /\ pc' = "set3"
            /\ UNCHANGED err
       \/ \E p \in PartialTFBlobs :
            /\ log' = Logged("Apply", FALSE, state.TFState, p)
            /\ Return("Apply failed")
            /\ UNCHANGED <<state, applyMemo>>
    /\ UNCHANGED <<store, upConfig, input, locals, runs, prev, deployMemo, rival, query>>

\* mutant: the applier's state is not written before the outputs are read
SetTFState_Skipped ==
    /\ pc = "set3"
    /\ pc' = "get"
    /\ UNCHANGED <<store, state, upConfig, input, locals, log, err, runs, prev, applyMemo, deployMemo, rival, query>>

\* gcp_up.go 136-138
SetTFState == pc = "set3" /\ StoreSet("get")

\* mutant: a failed Get is taken as an empty output and the run goes on
GetOutput_Swallowed ==
    /\ pc = "get"
    /\ LET i == Cardinality(DOMAIN locals.outputs) + 1
           name == OutputNames[i]
       IN  \/ /\ locals' = [locals EXCEPT !.outputs = @ @@ (name :> OutputOf(state.TFState, name))]
              /\ log' = Logged("Get", TRUE, name, OutputOf(state.TFState, name))
           \/ /\ locals' = [locals EXCEPT !.outputs = @ @@ (name :> "")]
              /\ log' = Logged("Get", FALSE, name, "")
    /\ pc' = IF Cardinality(DOMAIN locals.outputs) + 1 = Len(OutputNames) THEN "deployinput" ELSE "get"
    /\ UNCHANGED <<store, state, upConfig, input, err, runs, prev, applyMemo, deployMemo, rival, query>>

\* gcp_up.go 140-164: the six outputs, in the order of OutputNames
GetOutput ==
    /\ pc = "get"
    /\ LET i == Cardinality(DOMAIN locals.outputs) + 1
           name == OutputNames[i]
       IN  \/ /\ locals' = [locals EXCEPT !.outputs = @ @@ (name :> OutputOf(state.TFState, name))]
              /\ log' = Logged("Get", TRUE, name, OutputOf(state.TFState, name))
              /\ pc' = IF i = Len(OutputNames) THEN "deployinput" ELSE "get"
              /\ UNCHANGED err
           \/ /\ log' = Logged("Get", FALSE, name, "")
              /\ Return("Get failed")
              /\ UNCHANGED locals
    /\ UNCHANGED <<store, state, upConfig, input, runs, prev, applyMemo, deployMemo, rival, query>>

\* gcp_up.go 166-182
MakeDeployInput ==
    /\ pc = "deployinput"
    /\ \/ /\ locals' = [locals EXCEPT !.deployInput = NewDeployInput(state)]
          /\ pc' = "deploy"
          /\ UNCHANGED err
       \/ /\ Return("NewDeployInput failed")
          /\ UNCHANGED locals
    /\ UNCHANGED <<store, state, upConfig, input, log, runs, prev, applyMemo, deployMemo, rival, query>>

\* gcp_up.go 184-203
Deploy ==
    /\ pc = "deploy"
    /\ LET prior == locals.deployInput.BOSHInitState IN
       \/ \E o \in DeployOutputs :
            /\ deployMemo[prior] \in {NoDeployOutput, o}
            /\ deployMemo' = [deployMemo EXCEPT ![prior] = o]
            /\ state' = [state EXCEPT !.BOSH =
                   BOSHAfterDeploy(state.BOSH, locals.deployInput, o,
                                   locals.outputs["director_address"])]
            /\ log' = Logged("Deploy", TRUE, prior, o.BOSHInitState)
            /\ pc' = "set4"
            /\ UNCHANGED err
       \/ /\ log' = Logged("Deploy", FALSE, prior, "")
          /\ Return("Deploy failed")
          /\ UNCHANGED <<state, deployMemo>>
    /\ UNCHANGED <<store, upConfig, input, locals, runs, prev, applyMemo, rival, query>>

\* gcp_up.go 205-208
SetDirector == pc = "set4" /\ StoreSet("generate")

\* gcp_up.go 210-223
GenerateCloudConfig ==
    /\ pc = "generate"
    /\ LET azs == getAZs(state.GCP.Region) IN
       /\ locals' = [locals EXCEPT !.azs = azs]
       /\ \/ /\ log' = Logged("Generate", TRUE, IF azs = <<>> THEN "" ELSE azs[1], "")
             /\ pc' = "marshal"
             /\ UNCHANGED err
          \/ /\ log' = Logged("Generate", FALSE, IF azs = <<>> THEN "" ELSE azs[1], "")
             /\ Return("Generate failed")
    /\ UNCHANGED <<store, state, upConfig, input, runs, prev, applyMemo, deployMemo, rival, query>>

\* gcp_up.go 225-228
Marshal == pc = "marshal" /\ PlainCall("marshal", "", "updatecloudconfig")

\* gcp_up.go 230-235
UpdateCloudConfig ==
    /\ pc = "updatecloudconfig"
    /\ \/ /\ log' = Logged("UpdateCloudConfig", TRUE, IF locals.azs = <<>> THEN "" ELSE locals.azs[1], "")
          /\ Return("")
       \/ /\ log' = Logged("UpdateCloudConfig", FALSE, IF locals.azs = <<>> THEN "" ELSE locals.azs[1], "")
          /\ Return("UpdateCloudConfig failed")
    /\ UNCHANGED <<store, state, upConfig, input, locals, runs, prev, applyMemo, deployMemo, rival, query>>

\* the blob of the last successful Apply, of this invocation or of an earlier one
LastApplied ==
    IF \E i \in 1..Len(log) : log[i].op = "Apply" /\ log[i].ok
    THEN log[CHOOSE i \in 1..Len(log) : log[i].op = "Apply" /\ log[i].ok].out
    ELSE prev.applied

\* the blob of the last successful Apply that a successful Set wrote
LastSaved ==
    IF \E i, j \in 1..Len(log) :
          i < j /\ log[i].op = "Apply" /\ log[i].ok /\ log[j].op = "Set" /\ log[j].ok
    THEN LastApplied
    ELSE prev.saved

\* main: Execute has returned and the process exits
Exit ==
    /\ pc = "done"
    /\ pc' = "idle"
    /\ prev' = IF log = <<>>
               THEN prev
               ELSE [input |-> input, upConfig |-> upConfig, ok |-> (err = ""), ran |-> TRUE,
                     applied |-> LastApplied, saved |-> LastSaved]
    /\ state' = EmptyState
    /\ upConfig' = EmptyUpConfig
    /\ input' = EmptyState
    /\ locals' = EmptyLocals
    /\ log' = <<>>
    /\ err' = ""
    /\ UNCHANGED <<store, runs, applyMemo, deployMemo, rival, query>>

Next ==
    \/ Invoke
    \/ ParseConfig
    \/ Validate
    \/ SetCredentials
    \/ SetConfig
    \/ EnsureKeyPair
    \/ SetKeyPair
    \/ TempDir
    \/ WriteFile
    \/ Apply
    \/ SetTFState
    \/ GetOutput
    \/ MakeDeployInput
    \/ Deploy
    \/ SetDirector
    \/ GenerateCloudConfig
    \/ Marshal
    \/ UpdateCloudConfig
    \/ Exit

Spec == Init /\ [][Next]_vars


\* ---------------------------------------------------------------- a second process
\* Nothing in main or in Execute takes a lock on the state directory, so a
\* second "up" may run against it while the first one does.  The rival runs
\* the same Execute with a valid configuration; its collaborators succeed (a
\* rival that fails simply stops).
RivalUpConfig ==
    [ServiceAccountKeyPath |-> "key.json", ProjectID |-> "proj",
     Zone |-> "us-west1-a", Region |-> "us-west1"]

RivalKeyPair == [PrivateKey |-> "priv2", PublicKey |-> "pub2"]

upVars == <<pc, state, upConfig, input, locals, log, err, runs, prev>>

\* main and gcp_up.go 86-98: the rival loads the state and applies its config
RivalInvoke ==
    /\ rival.pc = "idle"
    /\ runs = 1
    /\ rival' = [pc |-> "set1",
                 state |-> [store EXCEPT !.IAAS = "gcp", !.GCP = parseUpConfig(RivalUpConfig)]]
    /\ UNCHANGED <<store, upVars, applyMemo, deployMemo, query>>

\* u.stateStore.Set(state) of the rival
RivalSet(next) ==
    /\ store' = rival.state
    /\ rival' = [rival EXCEPT !.pc = next]
    /\ UNCHANGED <<upVars, applyMemo, deployMemo, query>>

\* gcp_up.go 100-102
RivalSetCredentials == rival.pc = "set1" /\ RivalSet("keypair")

\* gcp_up.go 108-113
RivalEnsureKeyPair ==
    /\ rival.pc = "keypair"
    /\ rival' = IF KeyPairIsEmpty(rival.state.KeyPair)
                THEN [pc |-> "set2", state |-> [rival.state EXCEPT !.KeyPair = RivalKeyPair]]
                ELSE [rival EXCEPT !.pc = "apply"]
    /\ UNCHANGED <<store, upVars, applyMemo, deployMemo, query>>

\* gcp_up.go 114-116
RivalSetKeyPair == rival.pc = "set2" /\ RivalSet("apply")

\* gcp_up.go 119-135
RivalApply ==
    /\ rival.pc = "apply"
    /\ \E r \in TFBlobs :
          /\ applyMemo[rival.state.TFState] \in {Unset, r}
          /\ applyMemo' = [applyMemo EXCEPT ![rival.state.TFState] = r]
          /\ rival' = [pc |-> "set3", state |-> [rival.state EXCEPT !.TFState = r]]
    /\ UNCHANGED <<store, upVars, deployMemo, query>>

\* gcp_up.go 136-138
RivalSetTFState == rival.pc = "set3" /\ RivalSet("deploy")

\* gcp_up.go 140-203
RivalDeploy ==
    /\ rival.pc = "deploy"
    /\ LET deployInput == NewDeployInput(rival.state) IN
       \E o \in DeployOutputs :
          /\ deployMemo[deployInput.BOSHInitState] \in {NoDeployOutput, o}
          /\ deployMemo' = [deployMemo EXCEPT ![deployInput.BOSHInitState] = o]
          /\ rival' = [pc |-> "set4",
                       state |-> [rival.state EXCEPT !.BOSH =
                           BOSHAfterDeploy(rival.state.BOSH, deployInput, o,
                               OutputOf(rival.state.TFState, "director_address"))]]
    /\ UNCHANGED <<store, upVars, applyMemo, query>>

\* gcp_up.go 205-208; what follows does not touch the state
RivalSetDirector == rival.pc = "set4" /\ RivalSet("done")

\* the first invocation only
FirstInvoke == runs = 0 /\ Invoke

NextConcurrent ==
    \/ FirstInvoke
    \/ ParseConfig
    \/ Validate
    \/ SetCredentials
    \/ SetConfig
    \/ EnsureKeyPair
    \/ SetKeyPair
    \/ TempDir
    \/ WriteFile
    \/ Apply
    \/ SetTFState
    \/ GetOutput
    \/ MakeDeployInput
    \/ Deploy
    \/ SetDirector
    \/ GenerateCloudConfig
    \/ Marshal
    \/ UpdateCloudConfig
    \/ Exit
    \/ RivalInvoke
    \/ RivalSetCredentials
    \/ RivalEnsureKeyPair
    \/ RivalSetKeyPair
    \/ RivalApply
    \/ RivalSetTFState
    \/ RivalDeploy
    \/ RivalSetDirector

SpecConcurrent == Init /\ [][NextConcurrent]_vars

\* ---------------------------------------------------------------- state queries
\* StateQuery (commands/state_query.go): the command is constructed for one
\* property, CheckFastFails is called with the loaded state and, when it
\* returns nil, Execute.
EnvIDPropertyName == "environment id"
JumpboxAddressPropertyName == "jumpbox address"
DirectorUsernamePropertyName == "director username"
DirectorPasswordPropertyName == "director password"
DirectorAddressPropertyName == "director address"
DirectorCACertPropertyName == "director ca cert"

PropertyNames ==
    {EnvIDPropertyName, JumpboxAddressPropertyName, DirectorUsernamePropertyName,
     DirectorPasswordPropertyName, DirectorAddressPropertyName, DirectorCACertPropertyName}

\* the director sections a loaded state can hold, as far as queries read them
QueryDirectors ==
    { [EmptyBOSH EXCEPT !.DirectorAddress = a, !.DirectorUsername = c[1],
                        !.DirectorPassword = c[2], !.DirectorSSLCA = c[3]] :
        a \in {"", "https://10.0.0.6:25555"},
        c \in {<<"", "", "">>, <<"user-1", "pw-1", "ca1">>} }

\* the states a query can be run on
QueryStates ==
    { [EmptyState EXCEPT !.IAAS = i, !.EnvID = e, !.NoDirector = n, !.BOSH = b,
                         !.Stack = [Name |-> IF i = "aws" THEN "stack-1" ELSE ""],
                         !.Jumpbox = j] :
        i \in {"aws", "gcp", "azure"}, e \in {"", "env-1"}, n \in BOOLEAN,
        b \in QueryDirectors,
        j \in [Enabled : BOOLEAN, URL : {"", "10.0.0.5:22"}] }

\* what infrastructureManager.Describe can return: an error, or a stack with outputs
DescribeOutcomes ==
    { NoInfra,
      [ok |-> TRUE, outputs |-> EmptyMap],
      [ok |-> TRUE, outputs |-> [k \in {"BOSHEIP"} |-> "52.0.0.1"]] }

\* what terraformManager.GetOutputs can return: an error, or the outputs
GetOutputsOutcomes ==
    { NoInfra,
      [ok |-> TRUE, outputs |-> EmptyMap],
      [ok |-> TRUE, outputs |-> [k \in {"external_ip"} |-> ""]],
      [ok |-> TRUE, outputs |-> [k \in {"external_ip"} |-> "35.0.0.1"]] }

\* what stateValidator.Validate can return, "" for nil
ValidateOutcomes == {"", "state dir has no state file"}

\* a failed type assertion ends the process
Panic == "panic: interface conversion"

\* reading a Go map of strings: the zero value for a missing key
Lookup(m, k) == IF k \in DOMAIN m THEN m[k] ELSE ""

\* mutant: the fast-fail check has no exemption for the director address
CheckFastFails_NoExemption(propertyName, st, validateErr) ==
    IF validateErr # ""
    THEN validateErr
    ELSE IF st.NoDirector /\ propertyName # EnvIDPropertyName
    THEN "Error BBL does not manage this director."
    ELSE ""

\* StateQuery.CheckFastFails: the error it returns, "" for nil
CheckFastFails(propertyName, st, validateErr) ==
    IF validateErr # ""
    THEN validateErr
    ELSE IF /\ st.NoDirector
            /\ propertyName # DirectorAddressPropertyName
            /\ propertyName # EnvIDPropertyName
    THEN "Error BBL does not manage this director."
    ELSE ""

\* mutant: the external IP is also looked up when the stored address is empty
NeedsEIP_WhenAbsent(propertyName, st) ==
    /\ propertyName = DirectorAddressPropertyName
    /\ st.NoDirector \/ st.BOSH.DirectorAddress = ""

\* state_query.go 66-70: Execute calls getEIP
NeedsEIP(propertyName, st) ==
    /\ propertyName = DirectorAddressPropertyName
    /\ st.NoDirector

\* the collaborator getEIP consults for the state's IAAS
EIPCalls(st) ==
    CASE st.IAAS = "aws" -> <<[op |-> "Describe", arg |-> st.Stack.Name]>>
      [] st.IAAS = "gcp" -> <<[op |-> "GetOutputs", arg |-> st.IAAS]>>
      [] OTHER           -> <<>>

\* mutant: the stack is described for gcp and the terraform outputs read for aws
getEIP_Swapped(st, infra) ==
    CASE st.IAAS = "gcp" ->
           IF infra.ok THEN [ip |-> Lookup(infra.outputs, "BOSHEIP"), err |-> ""]
                       ELSE [ip |-> "", err |-> "Describe failed"]
      [] st.IAAS = "aws" ->
           IF ~infra.ok THEN [ip |-> "", err |-> "GetOutputs failed"]
           ELSE IF "external_ip" \in DOMAIN infra.outputs
           THEN [ip |-> infra.outputs["external_ip"], err |-> ""]
           ELSE [ip |-> "", err |-> Panic]
      [] OTHER -> [ip |-> "", err |-> "Could not find external IP for given IAAS"]

\* StateQuery.getEIP, given what the collaborator returned
getEIP(st, infra) ==
    CASE st.IAAS = "aws" ->
           IF infra.ok THEN [ip |-> Lookup(infra.outputs, "BOSHEIP"), err |-> ""]
                       ELSE [ip |-> "", err |-> "Describe failed"]
      [] st.IAAS = "gcp" ->
           IF ~infra.ok THEN [ip |-> "", err |-> "GetOutputs failed"]
           ELSE IF "external_ip" \in DOMAIN infra.outputs
           THEN [ip |-> infra.outputs["external_ip"], err |-> ""]
           ELSE [ip |-> "", err |-> Panic]
      [] OTHER -> [ip |-> "", err |-> "Could not find external IP for given IAAS"]

\* mutant: the jumpbox URL is read whether or not the jumpbox is enabled
PropertyValue_JumpboxAlways(propertyName, st, externalIP) ==
    CASE propertyName = JumpboxAddressPropertyName -> st.Jumpbox.URL
      [] propertyName = DirectorAddressPropertyName ->
           IF NeedsEIP(propertyName, st)
           THEN "https://" \o externalIP \o ":25555"
           ELSE st.BOSH.DirectorAddress
      [] propertyName = DirectorUsernamePropertyName -> st.BOSH.DirectorUsername
      [] propertyName = DirectorPasswordPropertyName -> st.BOSH.DirectorPassword
      [] propertyName = DirectorCACertPropertyName -> st.BOSH.DirectorSSLCA
      [] propertyName = EnvIDPropertyName -> st.EnvID
      [] OTHER -> ""

\* state_query.go 60-84: the property value, given the external IP
PropertyValue(propertyName, st, externalIP) ==
    CASE propertyName = JumpboxAddressPropertyName ->
           IF st.Jumpbox.Enabled THEN st.Jumpbox.URL ELSE ""
      [] propertyName = DirectorAddressPropertyName ->
           IF NeedsEIP(propertyName, st)
           THEN "https://" \o externalIP \o ":25555"
           ELSE st.BOSH.DirectorAddress
      [] propertyName = DirectorUsernamePropertyName -> st.BOSH.DirectorUsername
      [] propertyName = DirectorPasswordPropertyName -> st.BOSH.DirectorPassword
      [] propertyName = DirectorCACertPropertyName -> st.BOSH.DirectorSSLCA
      [] propertyName = EnvIDPropertyName -> st.EnvID
      [] OTHER -> ""

CouldNotRetrieve(propertyName) ==
    "Could not retrieve " \o propertyName \o ", please make sure you are targeting the proper state dir."

\* mutant: the value is printed before it is tested for emptiness
ExecuteResult_PrintFirst(propertyName, st, eip) ==
    IF NeedsEIP(propertyName, st) /\ eip.err # ""
    THEN [printed |-> <<>>, err |-> eip.err]
    ELSE IF PropertyValue(propertyName, st, eip.ip) = ""
    THEN [printed |-> <<PropertyValue(propertyName, st, eip.ip)>>, err |-> CouldNotRetrieve(propertyName)]
    ELSE [printed |-> <<PropertyValue(propertyName, st, eip.ip)>>, err |-> ""]

\* StateQuery.Execute: what it prints with logger.Println and what it returns
ExecuteResult(propertyName, st, eip) ==
    IF NeedsEIP(propertyName, st) /\ eip.err # ""
    THEN [printed |-> <<>>, err |-> eip.err]
    ELSE IF PropertyValue(propertyName, st, eip.ip) = ""
    THEN [printed |-> <<>>, err |-> CouldNotRetrieve(propertyName)]
    ELSE [printed |-> <<PropertyValue(propertyName, st, eip.ip)>>, err |-> ""]

queryFrame == <<store, upVars, applyMemo, deployMemo, rival>>

\* main: a query command is run on the loaded state
QueryStart ==
    /\ query.pc = "idle"
    /\ \E p \in PropertyNames, st \in QueryStates :
          query' = [IdleQuery EXCEPT !.pc = "check", !.propertyName = p, !.state = st]
    /\ UNCHANGED queryFrame

\* state_query.go 46-57
QueryCheckFastFails ==
    /\ query.pc = "check"
    /\ \E v \in ValidateOutcomes :
          LET e == CheckFastFails(query.propertyName, query.state, v) IN
          query' = [query EXCEPT !.validateErr = v, !.fastFail = e, !.err = e,
                                 !.pc = IF e = "" THEN "execute" ELSE "done"]
    /\ UNCHANGED queryFrame

\* state_query.go 59-112
QueryExecute ==
    /\ query.pc = "execute"
    /\ \E infra \in IF ~NeedsEIP(query.propertyName, query.state) THEN {NoInfra}
                    ELSE IF query.state.IAAS = "aws" THEN DescribeOutcomes
                    ELSE IF query.state.IAAS = "gcp" THEN GetOutputsOutcomes
                    ELSE {NoInfra} :
          LET r == ExecuteResult(query.propertyName, query.state, getEIP(query.state, infra)) IN
          query' = [query EXCEPT
                      !.infra = infra,
                      !.calls = IF NeedsEIP(query.propertyName, query.state)
                                THEN EIPCalls(query.state) ELSE <<>>,
                      !.printed = r.printed,
                      !.err = r.err,
                      !.pc = "done"]
    /\ UNCHANGED queryFrame

\* main: the command has returned and the process exits
QueryExit ==
    /\ query.pc = "done"
    /\ query' = IdleQuery
    /\ UNCHANGED queryFrame

QueryNext ==
    \/ QueryStart
    \/ QueryCheckFastFails
    \/ QueryExecute
    \/ QueryExit

QuerySpec == Init /\ [][QueryNext]_vars

\* ---------------------------------------------------------------- reading the log
Idx(op) == {i \in 1..Len(log) : log[i].op = op}

Count(op) == Cardinality(Idx(op))

OkIdx(op) == {i \in Idx(op) : log[i].ok}

FailedIdx(op) == {i \in Idx(op) : ~log[i].ok}

Highest(S) == CHOOSE i \in S : \A j \in S : j <= i

\* the successful Set calls made before call i
SetsBefore(i) == {j \in OkIdx("Set") : j < i}

\* the successful calls of op made before call i
OkBefore(op, i) == {j \in OkIdx(op) : j < i}

Running == pc # "idle"

Failed == pc = "done" /\ err # ""

Succeeded == pc = "done" /\ err = ""

\* the invocation returned an error after a call of op failed
FailedAt(op) == Failed /\ FailedIdx(op) # {}

\* what the failed call of op reported
Reported(op) == log[Highest(FailedIdx(op))].out

DirectorFields(b) ==
    <<b.DirectorName, b.DirectorAddress, b.DirectorUsername, b.DirectorPassword,
      b.DirectorSSLCA, b.DirectorSSLCertificate, b.DirectorSSLPrivateKey, b.Credentials>>

\* ---------------------------------------------------------------- C1
\* C1: every step's result is written with stateStore.Set before the next
\* external step is invoked: Apply is called only after a state carrying the
\* key pair was Set, Deploy only after a state carrying the TFState that Apply
\* returned was Set, and UpdateCloudConfig only after a state carrying the
\* director fields and the deployment-tool state was Set.
C1_PersistBeforeNextStep ==
    /\ \A i \in Idx("Apply") :
         /\ SetsBefore(i) # {}
         /\ ~KeyPairIsEmpty(log[Highest(SetsBefore(i))].st.KeyPair)
         /\ log[Highest(SetsBefore(i))].st.KeyPair = state.KeyPair
         /\ KeyPairIsEmpty(input.KeyPair) =>
               /\ OkBefore("Update", i) # {}
               /\ \E j \in SetsBefore(i) : j > Highest(OkBefore("Update", i))
    /\ \A i \in Idx("Deploy") :
         /\ OkBefore("Apply", i) # {}
         /\ \E j \in SetsBefore(i) :
               /\ j > Highest(OkBefore("Apply", i))
               /\ log[j].st.TFState = log[Highest(OkBefore("Apply", i))].out
    /\ \A i \in Idx("UpdateCloudConfig") :
         /\ OkBefore("Deploy", i) # {}
         /\ \E j \in SetsBefore(i) :
               /\ j > Highest(OkBefore("Deploy", i))
               /\ log[j].st.BOSH.State = log[Highest(OkBefore("Deploy", i))].out
               /\ DirectorFields(log[j].st.BOSH) = DirectorFields(state.BOSH)
               /\ ~BOSHIsEmpty(log[j].st.BOSH)

C1_Witness ==
    /\ Succeeded
    /\ Count("Update") = 1
    /\ Count("Apply") = 1
    /\ Count("Deploy") = 1
    /\ Count("UpdateCloudConfig") = 1

\* ---------------------------------------------------------------- C2
\* C2: when Apply or Deploy fails, the partial state the tool reports is
\* written with stateStore.Set before Execute returns the error.
C2_PartialStatePersisted ==
    /\ FailedAt("Apply") => store.TFState = Reported("Apply")
    /\ \A i \in FailedIdx("Apply") \cup FailedIdx("Deploy") :
         Failed => \E j \in Idx("Set") : j > i

\* ---------------------------------------------------------------- C3
\* the invocation now running repeats the inputs of the last invocation that
\* reached the state store, and starts from the state that one left
Reinvoked == Running /\ prev.ran /\ prev.upConfig = upConfig

\* the final state of an invocation from s0 with config c in which every
\* collaborator succeeds, the collaborators answering as they did in this
\* behaviour
Uninterrupted(s0, c) ==
    LET s1 == IF empty(c) THEN s0 ELSE [s0 EXCEPT !.IAAS = "gcp", !.GCP = parseUpConfig(c)]
        s2 == IF KeyPairIsEmpty(s1.KeyPair) THEN [s1 EXCEPT !.KeyPair = NewKeyPair] ELSE s1
        s3 == [s2 EXCEPT !.TFState = applyMemo[s2.TFState]]
        di == NewDeployInput(s3)
        out == deployMemo[di.BOSHInitState]
    IN  [s3 EXCEPT !.BOSH = BOSHAfterDeploy(s3.BOSH, di, out,
                                            OutputOf(s3.TFState, "director_address"))]

\* Apply and Deploy, given as prior state the state they returned, return it again
ApplyIdempotent ==
    \A t \in DOMAIN applyMemo :
        applyMemo[t] # Unset => applyMemo[applyMemo[t]] \in {Unset, applyMemo[t]}

DeployIdempotent ==
    \A b \in DOMAIN deployMemo :
        deployMemo[b] # NoDeployOutput =>
            deployMemo[deployMemo[b].BOSHInitState] \in {NoDeployOutput, deployMemo[b]}

SecondRun == Reinvoked /\ prev.ok

C5_KeyPairStepIdempotent ==
    Running =>
        /\ ~KeyPairIsEmpty(input.KeyPair) =>
              /\ Count("Update") = 0
              /\ \A i \in Idx("Set") : log[i].st.KeyPair = input.KeyPair
        /\ KeyPairIsEmpty(input.KeyPair) =>
              /\ Count("Update") <= 1
              /\ (Idx("Apply") # {} \/ Succeeded) => Cardinality(OkIdx("Update")) = 1
              /\ \A i \in OkIdx("Update") :
                    /\ i < Len(log) => log[i + 1].op = "Set" /\ log[i + 1].st.KeyPair.PublicKey = log[i].out
                    /\ (i < Len(log) /\ log[i + 1].ok) => store.KeyPair.PublicKey = log[i].out

C5_Witness ==
    /\ Succeeded
    /\ KeyPairIsEmpty(input.KeyPair)
    /\ Count("Update") = 1
    /\ store.KeyPair = NewKeyPair

\* ---------------------------------------------------------------- C6
\* C6: run with a populated director section, every state Execute writes has
\* the input's director name, address, username, password, SSL CA, certificate,
\* private key and credentials, whatever this run's deploy input and output
\* hold; the deployment-tool state and manifest are those of this deploy.
C6_RedeployKeepsDirectorCredentials ==
    (Running /\ ~BOSHIsEmpty(input.BOSH)) =>
        /\ \A i \in Idx("Set") : DirectorFields(log[i].st.BOSH) = DirectorFields(input.BOSH)
        /\ \A i \in OkIdx("Deploy") :
              i < Len(log) =>
                 /\ log[i + 1].st.BOSH.State = log[i].out
                 /\ log[i + 1].st.BOSH.Manifest = deployMemo[log[i].arg].BOSHInitManifest

C6_Witness ==
    /\ Succeeded
    /\ ~BOSHIsEmpty(input.BOSH)
    /\ locals.deployInput.DirectorUsername # input.BOSH.DirectorUsername
    /\ store.BOSH.State # input.BOSH.State
    /\ deployMemo[input.BOSH.State].DirectorSSLKeyPair.CA # input.BOSH.DirectorSSLCA
    /\ OutputOf(store.TFState, "director_address") # input.BOSH.DirectorAddress

\* ---------------------------------------------------------------- C7
ParseErrors == {"error reading service account key", "error parsing service account key"}

\* the state Execute validates: the input with the up configuration applied
Configured == IF empty(upConfig) THEN input ELSE [input EXCEPT !.IAAS = "gcp", !.GCP = parseUpConfig(upConfig)]

\* the up configuration has no key path, or the resulting state lacks a field
ConfigRejected ==
    /\ Running
    /\ \/ ~empty(upConfig) /\ upConfig.ServiceAccountKeyPath = ""
       \/ Configured.GCP.ServiceAccountKey = ""
       \/ Configured.GCP.ProjectID = ""
       \/ Configured.GCP.Region = ""
       \/ Configured.GCP.Zone = ""

\* C7: when the up configuration cannot be parsed or the resulting state lacks
\* a service account key, project ID, region or zone, Execute returns an error
\* having called no collaborator and written no state.
C7_ValidationErrorsTouchNothing ==
    /\ ConfigRejected =>
          /\ pc \in {"parse", "validate", "done"}
          /\ pc = "done" => err # ""
          /\ log = <<>>
          /\ store = input
    /\ (pc = "done" /\ err \in ParseErrors) => log = <<>> /\ store = input

C7_Witness ==
    /\ Failed
    /\ ConfigRejected
    /\ upConfig.ServiceAccountKeyPath # ""
    /\ err = "GCP region must be provided"

\* ---------------------------------------------------------------- C8
\* Execute returned the error of validateState
ValidationFailed ==
    /\ Failed
    /\ log = <<>>
    /\ empty(upConfig) \/ upConfig.ServiceAccountKeyPath # ""
    /\ err \notin ParseErrors

RequiredFields == <<"ServiceAccountKey", "ProjectID", "Region", "Zone">>

Missing(s) == {f \in {"ServiceAccountKey", "ProjectID", "Region", "Zone"} : s.GCP[f] = ""}

FirstMissing(s) ==
    RequiredFields[CHOOSE i \in 1..4 :
        /\ RequiredFields[i] \in Missing(s)
        /\ \A j \in 1..(i - 1) : RequiredFields[j] \notin Missing(s)]

\* the fields an error message names
FieldsNamed(e) ==
    CASE e = "GCP service account key must be provided" -> {"ServiceAccountKey"}
      [] e = "GCP project ID must be provided"          -> {"ProjectID"}
      [] e = "GCP region must be provided"              -> {"Region"}
      [] e = "GCP zone must be provided"                -> {"Zone"}
      [] OTHER                                          -> {}

\* C8 as stated: when two or more required fields are missing, the error names
\* every one of them.
C8_ErrorNamesEveryMissingField ==
    (ValidationFailed /\ Cardinality(Missing(state)) >= 2) => Missing(state) \subseteq FieldsNamed(err)

\* C8 amended: the error names exactly one missing field, the first in the
\* order service account key, project ID, region, zone.
C8_ErrorNamesFirstMissingField ==
    ValidationFailed => Missing(state) # {} /\ FieldsNamed(err) = {FirstMissing(state)}

C8_Witness ==
    /\ ValidationFailed
    /\ Missing(state) = {"ServiceAccountKey", "ProjectID", "Region", "Zone"}
    /\ FieldsNamed(err) = {"ServiceAccountKey"}

\* ---------------------------------------------------------------- C9
\* C9: for a region that is not in the region-to-AZ table Execute returns an
\* error and never hands an empty AZ list to Generate or UpdateCloudConfig.
C9_UnknownRegionIsAnError ==
    (Running /\ pc \notin {"parse", "validate"} /\ state.GCP.Region \notin DOMAIN AZTable) =>
        /\ ~Succeeded
        /\ \A i \in Idx("Generate") \cup Idx("UpdateCloudConfig") : log[i].arg # ""

\* ---------------------------------------------------------------- C10
\* C10: when the key pair update, Apply or Deploy fails, Execute returns the
\* error and the stored state is the state of the steps completed before it:
\* still no KeyPair after a failed Update, the input TFState after a failed
\* Apply, the input director section after a failed Deploy.
C10_FailedStepLeavesNoTrace ==
    /\ FailedAt("Update") => store = state /\ KeyPairIsEmpty(store.KeyPair)
    /\ FailedAt("Apply") => store = state /\ store.TFState = input.TFState
    /\ FailedAt("Deploy") => store = state /\ store.BOSH = input.BOSH
    /\ \A op \in {"Update", "Apply", "Deploy"} :
          (pc = "done" /\ FailedIdx(op) # {}) => err # ""

C10_Witness ==
    /\ FailedAt("Apply")
    /\ Reported("Apply") = "tfpart"
    /\ input.TFState \in TFBlobs
    /\ store.TFState = input.TFState

\* ---------------------------------------------------------------- C11
\* C11: when terraformOutputer.Get fails for any of the six outputs, Execute
\* returns that error, calls neither Deploy nor UpdateCloudConfig, makes no
\* further Set, and the store still holds the TFState the Apply returned.
C11_OutputFailureKeepsState ==
    \A i \in FailedIdx("Get") :
        /\ pc = "done"
        /\ err = "Get failed"
        /\ i = Len(log)
        /\ Count("Deploy") = 0
        /\ Count("UpdateCloudConfig") = 0
        /\ OkBefore("Apply", i) # {}
        /\ store.TFState = log[Highest(OkBefore("Apply", i))].out
        /\ store = state

C11_Witness ==
    /\ FailedAt("Get")
    /\ log[Len(log)].arg = "director_address"
    /\ store.TFState \in TFBlobs
    /\ store.TFState # input.TFState

\* ---------------------------------------------------------------- C12
\* an invocation with a GCP configuration on a state that holds no key pair,
\* no infrastructure and no director
FreshUp ==
    /\ Running
    /\ ~empty(upConfig)
    /\ KeyPairIsEmpty(input.KeyPair) /\ input.TFState = "" /\ BOSHIsEmpty(input.BOSH)
    /\ ~input.NoDirector

\* across the writes of the run KeyPair is populated no later than TFState,
\* and TFState no later than the director section
PopulatedInOrder ==
    \A i \in OkIdx("Set") :
        /\ log[i].st.TFState # "" => ~KeyPairIsEmpty(log[i].st.KeyPair)
        /\ ~BOSHIsEmpty(log[i].st.BOSH) => log[i].st.TFState # ""

C13_EnvIDImmutable ==
    [][/\ store'.EnvID = store.EnvID
       /\ pc' # "idle" => state'.EnvID = store.EnvID /\ input'.EnvID = store.EnvID]_vars

C13_Witness ==
    /\ Succeeded
    /\ runs = 2
    /\ ~empty(upConfig)
    /\ input.EnvID = "env-1"
    /\ \A i \in Idx("Set") : log[i].st.EnvID = "env-1"

\* ---------------------------------------------------------------- C14
\* C14: run with a state in which NoDirector is true, Execute does not call
\* Deploy and the director section of every state it writes is empty.
C14_NoDirectorDeploysNothing ==
    (Running /\ input.NoDirector) =>
        /\ Count("Deploy") = 0
        /\ \A i \in Idx("Set") : BOSHIsEmpty(log[i].st.BOSH)

\* ---------------------------------------------------------------- C16
Checkpoints == {"set1", "set2", "set3", "set4"}

\* C16: in one invocation each checkpoint's Set and each of SetConfig, Update,
\* Apply, Deploy, Generate and UpdateCloudConfig is called at most once, and a
\* call that fails is the last call: Execute returns an error.
C16_NoRetryNoSwallow ==
    /\ \A op \in {"SetConfig", "Update", "Apply", "Deploy", "Generate", "UpdateCloudConfig"} :
          Count(op) <= 1
    /\ \A c \in Checkpoints : Cardinality({i \in Idx("Set") : log[i].arg = c}) <= 1
    /\ \A i \in Idx("Set") : log[i].arg \in Checkpoints
    /\ \A i \in 1..Len(log) :
          ~log[i].ok => i = Len(log) /\ pc = "done" /\ err # ""

C16_Witness ==
    /\ Failed
    /\ FailedIdx("SetConfig") # {}
    /\ Len(log) = 2

\* ---------------------------------------------------------------- C15
\* the stored state as the running invocation last read or wrote it
LastSeen == IF OkIdx("Set") = {} THEN input ELSE log[Highest(OkIdx("Set"))].st

\* this step is a successful stateStore.Set of the running invocation
Writes ==
    /\ Len(log') = Len(log) + 1
    /\ log'[Len(log')].op = "Set"
    /\ log'[Len(log')].ok

\* C15: with two up processes on one state directory, no Set of a run replaces
\* a KeyPair, TFState or director section that the other process has written
\* since the run last read or wrote the state.
C15_NoLostUpdate ==
    [][Writes =>
         /\ store.KeyPair = LastSeen.KeyPair \/ store'.KeyPair = store.KeyPair
         /\ store.TFState = LastSeen.TFState \/ store'.TFState = store.TFState
         /\ store.BOSH = LastSeen.BOSH \/ store'.BOSH = store.BOSH]_vars

\* ---------------------------------------------------------------- C17
\* CheckFastFails has returned
Checked == query.pc \in {"execute", "done"}

\* Execute has returned
Executed == query.pc = "done" /\ query.fastFail = ""

\* C17: CheckFastFails returns the error of stateValidator.Validate if there
\* is one; otherwise, with NoDirector true, an error for director username,
\* password and CA cert and nil for director address and environment id; with
\* NoDirector false, nil for every property.
C17_FastFailsInNoDirectorMode ==
    Checked =>
        /\ query.validateErr # "" => query.fastFail = query.validateErr
        /\ (query.validateErr = "" /\ query.state.NoDirector) =>
              /\ query.propertyName \in {DirectorUsernamePropertyName, DirectorPasswordPropertyName,
                                         DirectorCACertPropertyName} => query.fastFail # ""
              /\ query.propertyName \in {DirectorAddressPropertyName, EnvIDPropertyName}
                    => query.fastFail = ""
        /\ (query.validateErr = "" /\ ~query.state.NoDirector) => query.fastFail = ""
        /\ query.fastFail # "" => query.pc = "done" /\ query.err = query.fastFail /\ query.printed = <<>>

C17_Witness ==
    /\ query.pc = "done"
    /\ query.state.NoDirector
    /\ query.propertyName = DirectorPasswordPropertyName
    /\ query.state.BOSH.DirectorPassword # ""
    /\ query.fastFail = "Error BBL does not manage this director."

\* ---------------------------------------------------------------- C18
\* C18: for director-address with NoDirector true, Execute prints
\* https://<ip>:25555 with the BOSHEIP output of the described stack on aws and
\* the external_ip terraform output on gcp; with NoDirector false it prints
\* the stored address and consults neither.
C18_DirectorAddressFromInfrastructure ==
    (Executed /\ query.propertyName = DirectorAddressPropertyName) =>
        /\ (query.state.NoDirector /\ query.state.IAAS = "aws" /\ query.infra.ok) =>
              /\ query.calls = <<[op |-> "Describe", arg |-> query.state.Stack.Name]>>
              /\ query.printed = <<"https://" \o Lookup(query.infra.outputs, "BOSHEIP") \o ":25555">>
        /\ (query.state.NoDirector /\ query.state.IAAS = "gcp" /\ query.infra.ok
              /\ "external_ip" \in DOMAIN query.infra.outputs) =>
              /\ query.calls = <<[op |-> "GetOutputs", arg |-> "gcp"]>>
              /\ query.printed = <<"https://" \o query.infra.outputs["external_ip"] \o ":25555">>
        /\ ~query.state.NoDirector =>
              /\ query.calls = <<>>
              /\ query.state.BOSH.DirectorAddress # "" => query.printed = <<query.state.BOSH.DirectorAddress>>

C18_Witness ==
    /\ Executed
    /\ query.propertyName = DirectorAddressPropertyName
    /\ query.state.NoDirector
    /\ query.state.BOSH = EmptyBOSH
    /\ query.state.IAAS = "aws"
    /\ query.printed = <<"https://52.0.0.1:25555">>

\* ---------------------------------------------------------------- C19
\* a director-address query on a state with a director but no stored address
AddressAbsent ==
    /\ Executed
    /\ query.propertyName = DirectorAddressPropertyName
    /\ ~query.state.NoDirector
    /\ query.state.BOSH.DirectorAddress = ""

\* C19 as stated: the absent address is obtained from the infrastructure
\* outputs and the query does not fail.
C19_AbsentAddressRecomputed ==
    AddressAbsent => query.err = "" /\ query.calls # <<>> /\ query.printed # <<>>

\* C19 amended: the absent address is not recomputed; the query consults no
\* infrastructure output, prints nothing and returns the 'Could not retrieve
\* director address' error.  Only NoDirector mode recomputes.
C19_AbsentAddressIsAnError ==
    AddressAbsent =>
        /\ query.calls = <<>>
        /\ query.printed = <<>>
        /\ query.err = "Could not retrieve director address, please make sure you are targeting the proper state dir."

C19_Witness ==
    /\ AddressAbsent
    /\ query.state.IAAS = "gcp"
    /\ query.err # ""
    /\ query.calls = <<>>

\* ---------------------------------------------------------------- C20
\* the stored field a query other than director-address in NoDirector mode reads
StoredValue(p, st) ==
    CASE p = JumpboxAddressPropertyName -> IF st.Jumpbox.Enabled THEN st.Jumpbox.URL ELSE ""
      [] p = DirectorAddressPropertyName -> st.BOSH.DirectorAddress
      [] p = DirectorUsernamePropertyName -> st.BOSH.DirectorUsername
      [] p = DirectorPasswordPropertyName -> st.BOSH.DirectorPassword
      [] p = DirectorCACertPropertyName -> st.BOSH.DirectorSSLCA
      [] p = EnvIDPropertyName -> st.EnvID

\* the infrastructure lookup of the query failed
LookupFailed ==
    /\ query.propertyName = DirectorAddressPropertyName
    /\ query.state.NoDirector
    /\ \/ query.state.IAAS \notin {"aws", "gcp"}
       \/ ~query.infra.ok
       \/ query.state.IAAS = "gcp" /\ "external_ip" \notin DOMAIN query.infra.outputs

FromStore == ~(query.propertyName = DirectorAddressPropertyName /\ query.state.NoDirector)

\* C20: Execute prints exactly when it succeeds: one Println of the non-empty
\* value and nil, or an error and nothing printed when the value is empty or
\* the infrastructure lookup fails.
C20_PrintsExactlyOnSuccess ==
    Executed =>
        /\ query.err = "" <=> Len(query.printed) = 1
        /\ query.err # "" <=> query.printed = <<>>
        /\ \A i \in 1..Len(query.printed) : query.printed[i] # ""
        /\ (FromStore /\ StoredValue(query.propertyName, query.state) # "") =>
              query.err = "" /\ query.printed = <<StoredValue(query.propertyName, query.state)>>
        /\ (FromStore /\ StoredValue(query.propertyName, query.state) = "") =>
              query.err = CouldNotRetrieve(query.propertyName)
        /\ LookupFailed => query.err # ""

C20_Witness ==
    /\ Executed
    /\ query.propertyName = EnvIDPropertyName
    /\ query.state.EnvID = ""
    /\ query.err = "Could not retrieve environment id, please make sure you are targeting the proper state dir."
    /\ query.printed = <<>>

\* ---------------------------------------------------------------- C21
\* C21 as stated: the tfState argument of every terraformApplier.Apply is the
\* blob returned by the most recent successful Apply, or the initial TFState
\* if none has succeeded.
C21_ApplyGetsLastAppliedBlob ==
    \A i \in Idx("Apply") : log[i].arg = prev.applied

\* C21 amended: the tfState argument of every terraformApplier.Apply is the
\* TFState of the state the run was started with, which is the blob returned
\* by the most recent successful Apply that a successful stateStore.Set wrote,
\* or the initial TFState if there is none.  A blob whose Set failed is lost.
C21_ApplyGetsLastSavedBlob ==
    \A i \in Idx("Apply") : log[i].arg = input.TFState /\ log[i].arg = prev.saved

\* the second run hands the applier the blob the first run obtained and saved
C21_Witness ==
    /\ Idx("Apply") # {}
    /\ prev.ran
    /\ prev.saved \in TFBlobs
    /\ \A i \in Idx("Apply") : log[i].arg = prev.saved /\ log[i].ok /\ log[i].out # log[i].arg

\* ---------------------------------------------------------------- C22
\* C22: within one invocation, once a stateStore.Set has written a non-empty
\* KeyPair, TFState or director section, no later Set of the same invocation
\* is handed a state in which that field is empty.
C22_PersistedStateOnlyGrows ==
    \A i \in OkIdx("Set") : \A j \in Idx("Set") :
        i < j =>
            /\ ~KeyPairIsEmpty(log[i].st.KeyPair) => ~KeyPairIsEmpty(log[j].st.KeyPair)
            /\ log[i].st.TFState # "" => log[j].st.TFState # ""
            /\ ~BOSHIsEmpty(log[i].st.BOSH) => ~BOSHIsEmpty(log[j].st.BOSH)

\* a run on a populated state has written its three checkpoints, the applier
\* and the deployer having replaced the blobs of the first one
C22_Witness ==
    /\ Succeeded
    /\ Cardinality(OkIdx("Set")) = 3
    /\ ~KeyPairIsEmpty(input.KeyPair) /\ input.TFState # "" /\ ~BOSHIsEmpty(input.BOSH)
    /\ store.TFState # input.TFState
    /\ store.BOSH # input.BOSH

\* ---------------------------------------------------------------- C23
\* a director-address query in NoDirector mode, past the fast-fail check
NoDirectorAddressQuery ==
    /\ Executed
    /\ query.propertyName = DirectorAddressPropertyName
    /\ query.state.NoDirector

\* the infrastructure answered, without an external IP
NoExternalIP ==
    /\ query.infra.ok
    /\ \/ query.state.IAAS = "aws" /\ "BOSHEIP" \notin DOMAIN query.infra.outputs
       \/ /\ query.state.IAAS = "gcp"
          /\ "external_ip" \in DOMAIN query.infra.outputs
          /\ query.infra.outputs["external_ip"] = ""

\* C23: the director-address query in NoDirector mode never prints an address
\* with an empty host: with no BOSHEIP output of the stack (aws) or an empty
\* external_ip output (gcp) Execute returns the 'Could not retrieve director
\* address' error and prints nothing, and for an IAAS other than aws and gcp
\* it returns an error and prints nothing.
C23_NoAddressWithEmptyHost ==
    NoDirectorAddressQuery =>
        /\ \A i \in 1..Len(query.printed) : query.printed[i] # "https://:25555"
        /\ NoExternalIP =>
              /\ query.err = CouldNotRetrieve(DirectorAddressPropertyName)
              /\ query.printed = <<>>
        /\ query.state.IAAS \notin {"aws", "gcp"} =>
              query.err # "" /\ query.printed = <<>>

\* ---------------------------------------------------------------- C24
\* C24: run with an empty up configuration, every state Execute hands to
\* stateStore.Set has the IAAS and the GCP details of the input state; run
\* with a non-empty one, every such state has IAAS "gcp", the key read from
\* the configured file and the project, zone and region of the configuration,
\* none kept from the input state; and a non-empty configuration without a
\* service account key path fails before any Set.
C24_GCPDetailsFromConfigOrState ==
    Running =>
        /\ empty(upConfig) =>
              \A i \in Idx("Set") : log[i].st.IAAS = input.IAAS /\ log[i].st.GCP = input.GCP
        /\ ~empty(upConfig) =>
              \A i \in Idx("Set") :
                 /\ log[i].st.IAAS = "gcp"
                 /\ log[i].st.GCP.ServiceAccountKey = KeyFileContent
                 /\ log[i].st.GCP.ProjectID = upConfig.ProjectID
                 /\ log[i].st.GCP.Zone = upConfig.Zone
                 /\ log[i].st.GCP.Region = upConfig.Region
        /\ (~empty(upConfig) /\ upConfig.ServiceAccountKeyPath = "") =>
              /\ Idx("Set") = {}
              /\ pc \in {"parse", "done"}
              /\ pc = "done" => err = "GCP service account key must be provided"

\* a run on a configured state with another region has written the new region
C24_Witness ==
    /\ Succeeded
    /\ input.IAAS = "gcp"
    /\ input.GCP.Region = "us-west1"
    /\ upConfig.Region = "us-west2"
    /\ OkIdx("Set") # {}
    /\ store.GCP.Region = "us-west2"

\* ---------------------------------------------------------------- C25
\* C25: the jumpbox-address query prints the stored jumpbox URL if and only
\* if the jumpbox is enabled and the URL is non-empty; with the jumpbox
\* disabled Execute returns the 'Could not retrieve jumpbox address' error
\* even when a URL is stored; and with NoDirector true CheckFastFails rejects
\* the query, so that Execute is not run.
C25_JumpboxAddressOnlyWhenEnabled ==
    query.propertyName = JumpboxAddressPropertyName =>
        /\ Executed =>
              /\ query.printed # <<>> <=> (query.state.Jumpbox.Enabled /\ query.state.Jumpbox.URL # "")
              /\ query.printed # <<>> => query.printed = <<query.state.Jumpbox.URL>> /\ query.err = ""
              /\ ~query.state.Jumpbox.Enabled =>
                    query.err = "Could not retrieve jumpbox address, please make sure you are targeting the proper state dir."
              /\ query.calls = <<>>
        /\ (Checked /\ query.validateErr = "" /\ query.state.NoDirector) =>
              /\ query.fastFail = "Error BBL does not manage this director."
              /\ query.pc = "done"
              /\ query.printed = <<>>

\* a stored URL of a disabled jumpbox is not printed
C25_Witness ==
    /\ Executed
    /\ query.propertyName = JumpboxAddressPropertyName
    /\ ~query.state.Jumpbox.Enabled
    /\ query.state.Jumpbox.URL = "10.0.0.5:22"
    /\ query.printed = <<>>
    /\ query.err # ""

====
